---- MODULE Spec2Model ----
(***************************************************************************)
(* Model of src/main.py: the EXR sequence -> RGBA8 raw video pipeline.     *)
(*                                                                         *)
(* main() is a straight-line script; pc names the statement about to run.  *)
(* The files of the input directory are the input, fixed in Init.  Reads   *)
(* of a file (OpenEXR.InputFile / channel), the start of the encoder and  *)
(* what proc.stdin sends down the pipe are I/O and may raise; the          *)
(* encoder's exit status is the encoder's choice.                          *)
(*                                                                         *)
(* Floats: a sample is a float32 value [k, n], k in "fin" (the integer n), *)
(* "nan", "pinf", "ninf".  A float32 bit pattern is [s, e, m] (sign,       *)
(* biased exponent, 23-bit mantissa).                                      *)
(***************************************************************************)
EXTENDS Integers, Sequences, FiniteSets

VARIABLES
    importOk,     \* OpenEXR, Imath and numpy can be imported
    argsOk,       \* len(sys.argv) >= 3
    isDir,        \* os.path.isdir(exr_dir)
    files,        \* sorted(glob(...)): the frames on disk, in sorted order
    pc,           \* statement of main() about to run
    outcome,      \* "running" | "done" | "exit1" (sys.exit(1)) | "raised" (uncaught exception)
    diag,         \* what was printed / raised when the run ended
    scanLog,      \* indices of the files read by get_exr_min_max, in order
    global_min,
    global_max,
    encLog,       \* calls of exr_to_rgba8_bytes_with_global_scale: [file, gmin, gmax]
    w, h,         \* canonical geometry from the first frame
    cur,          \* index of the frame of the streaming loop
    rgba,         \* buffer returned by the last encode: [bytes, w, h]
    proc,         \* "none" | "running" | "terminated" | "exited"
    stdinOpen,    \* proc.stdin is open
    sink,         \* bytes of the proc.stdin.write() calls that returned
    wbuf,         \* bytes held in the buffer of proc.stdin (a BufferedWriter)
    piped,        \* bytes that went through the pipe to the encoder
    readerGone,   \* a write(2) found the encoder's end of the pipe closed
    returncode,   \* proc.returncode: <<>> while None, <<status>> once set
    cpc, cv, cbytes   \* the packing on its own: stage, float32 pattern, packed bytes

vars == <<importOk, argsOk, isDir, files, pc, outcome, diag, scanLog, global_min, global_max,
          encLog, w, h, cur, rgba, proc, stdinOpen, sink, wbuf, piped, readerGone, returncode,
          cpc, cv, cbytes>>

pipeVars == <<importOk, argsOk, isDir, files, pc, outcome, diag, scanLog, global_min, global_max,
              encLog, w, h, cur, rgba, proc, stdinOpen, sink, wbuf, piped, readerGone, returncode>>

codecVars == <<cpc, cv, cbytes>>

----------------------------------------------------------------------------
(* Bounds and input domains *)

MaxFrames == 2

\* an encoder that exits by itself ends with a status in 0..MaxExitStatus
MaxExitStatus == 2

\* signals that end the encoder
Signals == {1, 9}

\* finite sample values of the input frames: float32 integers, one of them
\* (5 * 2^22) above 2^24, where float32 holds only the even integers
SampleValues == {-1, 2, 20971520}

\* (width, height) of the input frames whose samples range over Samples
Geometries == {<<1, 1>>, <<2, 1>>, <<1, 2>>}

\* (width, height) of the input frames that fill the buffer of proc.stdin
\* (1024 * 4 bytes) and of those that pack to more than write(2) takes in one
\* piece (2049 * 4 bytes)
LargeGeometries == {<<1024, 1>>, <<2049, 1>>}

----------------------------------------------------------------------------
(* Floats *)

Fin(n) == [k |-> "fin", n |-> n]
NaN    == [k |-> "nan", n |-> 0]
PInf   == [k |-> "pinf", n |-> 0]
NInf   == [k |-> "ninf", n |-> 0]

Samples == {Fin(n) : n \in SampleValues} \cup {NaN}

\* a < b on floats: false whenever a NaN is involved
Lt(a, b) ==
    CASE a.k = "nan" \/ b.k = "nan" -> FALSE
      [] a.k = "ninf" -> b.k # "ninf"
      [] a.k = "pinf" -> FALSE
      [] OTHER -> b.k = "pinf" \/ (b.k = "fin" /\ a.n < b.n)

Gt(a, b) == Lt(b, a)

Pow2(i) == 2 ^ i

ExpBias == 127
MantBits == 23

\* floor(log2(a/d)) for integers a > 0, d > 0
RECURSIVE FloorLog2(_, _)
FloorLog2(a, d) ==
    IF a >= 2 * d THEN FloorLog2(a, 2 * d) + 1
    ELSE IF a < d THEN FloorLog2(2 * a, d) - 1
    ELSE 0

\* <<q, r>> with num * 2^i = q * den + r and 0 <= r < den, by long division,
\* 4 bits at a time and the last bits one by one
RECURSIVE DivBits(_, _, _)
DivBits(num, den, i) ==
    IF i = 0 THEN <<num \div den, num % den>>
    ELSE LET k  == IF i >= 4 THEN 4 ELSE 1
             p  == DivBits(num, den, i - k)
             r2 == Pow2(k) * p[2]
         IN <<Pow2(k) * p[1] + (r2 \div den), r2 % den>>

\* the float32 nearest to n/d (d > 0), ties to even, as a bit pattern
F32Round(n, d) ==
    IF n = 0 THEN [s |-> 0, e |-> 0, m |-> 0]
    ELSE
      LET a   == IF n < 0 THEN -n ELSE n
          E   == FloorLog2(a, d)
          num == IF E >= 0 THEN a ELSE a * Pow2(-E)
          den == IF E >= 0 THEN d * Pow2(E) ELSE d
          qr  == DivBits(num, den, MantBits)
          q   == qr[1]
          r   == qr[2]
          up  == (2 * r > den) \/ (2 * r = den /\ q % 2 = 1)
          q1  == IF up THEN q + 1 ELSE q
          ovf == q1 = Pow2(MantBits + 1)
      IN [s |-> IF n < 0 THEN 1 ELSE 0,
          e |-> (IF ovf THEN E + 1 ELSE E) + ExpBias,
          m |-> IF ovf THEN 0 ELSE q1 - Pow2(MantBits)]

\* the integer that the float32 nearest to the integer x holds, ties to even
F32OfInt(x) ==
    LET a == IF x < 0 THEN -x ELSE x
    IN IF a < Pow2(MantBits + 1) THEN x
       ELSE LET step == Pow2(FloorLog2(a, 1) - MantBits)
                q    == a \div step
                r    == a % step
                up   == (2 * r > step) \/ (2 * r = step /\ q % 2 = 1)
                v    == (IF up THEN q + 1 ELSE q) * step
            IN IF x < 0 THEN -v ELSE v

QuietNaNBits == [s |-> 0, e |-> 255, m |-> Pow2(MantBits - 1)]

----------------------------------------------------------------------------
(* get_exr_min_max: numpy's min()/max() of the channel, NaN if any sample is NaN *)

HasNaN(data) == \E i \in 1..Len(data) : data[i].k = "nan"

ArrMin(data) ==
    IF HasNaN(data) THEN NaN
    ELSE Fin(CHOOSE v \in {data[i].n : i \in 1..Len(data)} :
                 \A i \in 1..Len(data) : v <= data[i].n)

ArrMax(data) ==
    IF HasNaN(data) THEN NaN
    ELSE Fin(CHOOSE v \in {data[i].n : i \in 1..Len(data)} :
                 \A i \in 1..Len(data) : v >= data[i].n)

get_exr_min_max(f) == <<ArrMin(f.data), ArrMax(f.data)>>

----------------------------------------------------------------------------
(* exr_to_rgba8_bytes_with_global_scale *)

\* global_max > global_min
RangeUsable(gmin, gmax) == Gt(gmax, gmin)

\* one element of (depth_arr - global_min) / (global_max - global_min), line
\* 51.  depth_arr - global_min is a float32 subtraction: its result is
\* rounded.  global_max - global_min is taken in Python floats, exact for
\* these samples, and enters the float32 division rounded to float32.  The
\* division is rounded again.  The range is finite here (samples are finite
\* or NaN, the sentinels never pass line 107).  A NaN sample gives a quiet
\* NaN.
NormSample(s, gmin, gmax) ==
    IF s.k = "nan" THEN QuietNaNBits
    ELSE F32Round(F32OfInt(s.n - gmin.n), F32OfInt(gmax.n - gmin.n))

Normalise(data, gmin, gmax) ==
    [i \in 1..Len(data) |-> NormSample(data[i], gmin, gmax)]

\* struct.pack('<f', fval) takes fval through a C double and back to a C
\* float: a signalling NaN comes out quiet (mantissa bit 22 set), every
\* other pattern comes out as it went in.
Quieted(b) ==
    IF b.e = 255 /\ b.m # 0 /\ b.m < Pow2(MantBits - 1)
    THEN [b EXCEPT !.m = b.m + Pow2(MantBits - 1)]
    ELSE b

\* faulty variant of StructPack: most significant byte first
StructPackBigEndian(b) ==
    LET q == Quieted(b)
    IN << q.s * 128 + (q.e \div 2),
          (q.e % 2) * 128 + (q.m \div 65536),
          (q.m \div 256) % 256,
          q.m % 256 >>

\* b[0], b[1], b[2], b[3] of struct.pack('<f', fval): least significant byte first
StructPack(b) ==
    LET q == Quieted(b)
    IN << q.m % 256,
          (q.m \div 256) % 256,
          (q.e % 2) * 128 + (q.m \div 65536),
          q.s * 128 + (q.e \div 2) >>

\* rgba[y, x, c] = b[c] for every y, x; rgba.tobytes() is row-major
PackArray(arr) ==
    [i \in 1..(4 * Len(arr)) |-> StructPack(arr[((i - 1) \div 4) + 1])[((i - 1) % 4) + 1]]

\* the value returned when the normalising branch is taken
exr_to_rgba8_bytes_with_global_scale(f, gmin, gmax) ==
    [bytes |-> PackArray(Normalise(f.data, gmin, gmax)), w |-> f.w, h |-> f.h]

----------------------------------------------------------------------------
(* main *)

NoDiag == [kind |-> "none", file |-> 0, exp |-> <<0, 0>>, got |-> <<0, 0>>]
Diag(kind, file) == [kind |-> kind, file |-> file, exp |-> <<0, 0>>, got |-> <<0, 0>>]

NoBuf == [bytes |-> <<>>, w |-> 0, h |-> 0]

Frames ==
    UNION { [w : {g[1]}, h : {g[2]}, data : [1..(g[1] * g[2]) -> Samples]] : g \in Geometries }

RECURSIVE SeqsUpTo(_, _)
SeqsUpTo(S, n) ==
    IF n = 0 THEN {<<>>}
    ELSE LET prev == SeqsUpTo(S, n - 1)
         IN prev \cup {Append(q, x) : q \in {p \in prev : Len(p) = n - 1}, x \in S}

\* large frames: one sample of 2, then samples of -1
LargeFrames ==
    { [w |-> g[1], h |-> g[2],
       data |-> [i \in 1..(g[1] * g[2]) |-> IF i = 1 THEN Fin(2) ELSE Fin(-1)]] :
         g \in LargeGeometries }

\* sequences of small frames, and sequences of large frames
Inputs ==
    {<<FALSE, FALSE, FALSE, <<>>>>, <<TRUE, FALSE, FALSE, <<>>>>, <<TRUE, TRUE, FALSE, <<>>>>}
      \cup {<<TRUE, TRUE, TRUE, fs>> : fs \in SeqsUpTo(Frames, MaxFrames)}
      \cup {<<TRUE, TRUE, TRUE, fs>> : fs \in SeqsUpTo(LargeFrames, MaxFrames)}

CodecIdle ==
    /\ cpc = "off"
    /\ cv = [s |-> 0, e |-> 0, m |-> 0]
    /\ cbytes = <<>>

Init ==
    /\ \E in \in Inputs :
         /\ importOk = in[1]
         /\ argsOk = in[2]
         /\ isDir = in[3]
         /\ files = in[4]
    /\ pc = "import"
    /\ outcome = "running"
    /\ diag = NoDiag
    /\ scanLog = <<>>
    /\ global_min = PInf
    /\ global_max = NInf
    /\ encLog = <<>>
    /\ w = 0 /\ h = 0
    /\ cur = 0
    /\ rgba = NoBuf
    /\ proc = "none"
    /\ stdinOpen = FALSE
    /\ sink = <<>>
    /\ wbuf = <<>>
    /\ piped = <<>>
    /\ readerGone = FALSE
    /\ returncode = <<>>
    /\ CodecIdle

\* sys.exit(1) after a print, or an uncaught exception
End(how, d) ==
    /\ outcome' = how
    /\ diag' = d
    /\ pc' = "end"

Running == outcome = "running"

\* lines 8-14
ImportLibraries ==
    /\ Running /\ pc = "import"
    /\ IF ~importOk
       THEN End("exit1", Diag("MissingLibrary", 0))
       ELSE pc' = "args" /\ UNCHANGED <<outcome, diag>>
    /\ UNCHANGED <<importOk, argsOk, isDir, files, scanLog, global_min, global_max, encLog,
                   w, h, cur, rgba, proc, stdinOpen, sink, wbuf, piped, readerGone, returncode,
                   codecVars>>

\* lines 73-76
CheckArgs ==
    /\ Running /\ pc = "args"
    /\ IF ~argsOk
       THEN End("exit1", Diag("Usage", 0))
       ELSE pc' = "isdir" /\ UNCHANGED <<outcome, diag>>
    /\ UNCHANGED <<importOk, argsOk, isDir, files, scanLog, global_min, global_max, encLog,
                   w, h, cur, rgba, proc, stdinOpen, sink, wbuf, piped, readerGone, returncode, codecVars>>

\* lines 82-84
CheckDir ==
    /\ Running /\ pc = "isdir"
    /\ IF ~isDir
       THEN End("exit1", Diag("NotADirectory", 0))
       ELSE pc' = "glob" /\ UNCHANGED <<outcome, diag>>
    /\ UNCHANGED <<importOk, argsOk, isDir, files, scanLog, global_min, global_max, encLog,
                   w, h, cur, rgba, proc, stdinOpen, sink, wbuf, piped, readerGone, returncode, codecVars>>

\* faulty variant of NoFilesFound: the empty list is let through
NoFilesFoundNever(list) == FALSE

\* line 88: not exr_list
NoFilesFound(list) == list = <<>>

\* lines 87-97
ListFiles ==
    /\ Running /\ pc = "glob"
    /\ IF NoFilesFound(files)
       THEN /\ End("exit1", Diag("NoFiles", 0))
            /\ UNCHANGED <<global_min, global_max>>
       ELSE /\ pc' = "scan"
            /\ global_min' = PInf
            /\ global_max' = NInf
            /\ UNCHANGED <<outcome, diag>>
    /\ UNCHANGED <<importOk, argsOk, isDir, files, scanLog, encLog,
                   w, h, cur, rgba, proc, stdinOpen, sink, wbuf, piped, readerGone, returncode, codecVars>>

\* faulty variant of UpdateMin: the minimum of the last frame read wins
UpdateMinOverwrites(frame_min, gmin) == frame_min

\* lines 102-103
UpdateMin(frame_min, gmin) == IF Lt(frame_min, gmin) THEN frame_min ELSE gmin

\* lines 104-105
UpdateMax(frame_max, gmax) == IF Gt(frame_max, gmax) THEN frame_max ELSE gmax

\* faulty variant of ScanFinished: the scan stops after the first file
ScanStopsEarly == Len(scanLog) >= 1

\* the for loop of line 100 has gone through exr_list
ScanFinished == Len(scanLog) = Len(files)

\* lines 100-105, one iteration
ScanFile ==
    /\ Running /\ pc = "scan" /\ ~ScanFinished
    /\ LET i  == Len(scanLog) + 1
           mm == get_exr_min_max(files[i])
       IN /\ scanLog' = Append(scanLog, i)
          /\ global_min' = UpdateMin(mm[1], global_min)
          /\ global_max' = UpdateMax(mm[2], global_max)
    /\ UNCHANGED <<importOk, argsOk, isDir, files, pc, outcome, diag, encLog,
                   w, h, cur, rgba, proc, stdinOpen, sink, wbuf, piped, readerGone, returncode, codecVars>>

\* lines 22-25 raise: the file cannot be opened or read, or lacks the channel
ScanFileRaises ==
    /\ Running /\ pc = "scan" /\ ~ScanFinished
    /\ End("raised", Diag("DecodeError", Len(scanLog) + 1))
    /\ UNCHANGED <<importOk, argsOk, isDir, files, scanLog, global_min, global_max, encLog,
                   w, h, cur, rgba, proc, stdinOpen, sink, wbuf, piped, readerGone, returncode, codecVars>>

\* lines 107-112
CheckRange ==
    /\ Running /\ pc = "scan" /\ ScanFinished
    /\ IF global_min = PInf \/ global_max = NInf
       THEN End("exit1", Diag("RangeError", 0))
       ELSE pc' = "first" /\ UNCHANGED <<outcome, diag>>
    /\ UNCHANGED <<importOk, argsOk, isDir, files, scanLog, global_min, global_max, encLog,
                   w, h, cur, rgba, proc, stdinOpen, sink, wbuf, piped, readerGone, returncode, codecVars>>

\* one call of exr_to_rgba8_bytes_with_global_scale as main() passes it
EncCall(i) == [file |-> i, gmin |-> global_min, gmax |-> global_max]

\* lines 118-123.  With global_max <= global_min the callee takes line 54:
\* depth_arr is a view of the bytes object channel() returned (np.frombuffer,
\* reshape), so it is read-only and depth_arr.fill(0.0) raises ValueError.
EncodeFirst ==
    /\ Running /\ pc = "first"
    /\ encLog' = Append(encLog, EncCall(1))
    /\ IF RangeUsable(global_min, global_max)
       THEN LET r == exr_to_rgba8_bytes_with_global_scale(files[1], global_min, global_max)
            IN /\ rgba' = r
               /\ w' = r.w
               /\ h' = r.h
               /\ pc' = "popen"
               /\ UNCHANGED <<outcome, diag>>
       ELSE /\ End("raised", Diag("ValueError", 1))
            /\ UNCHANGED <<rgba, w, h>>
    /\ UNCHANGED <<importOk, argsOk, isDir, files, scanLog, global_min, global_max,
                   cur, proc, stdinOpen, sink, wbuf, piped, readerGone, returncode, codecVars>>

\* lines 39-47 raise in the call of line 118
EncodeFirstRaises ==
    /\ Running /\ pc = "first"
    /\ encLog' = Append(encLog, EncCall(1))
    /\ End("raised", Diag("DecodeError", 1))
    /\ UNCHANGED <<importOk, argsOk, isDir, files, scanLog, global_min, global_max,
                   w, h, cur, rgba, proc, stdinOpen, sink, wbuf, piped, readerGone, returncode, codecVars>>

\* exceptions of subprocess.Popen when ffmpeg cannot be started: no such
\* file, no permission, or any other OSError of fork and exec
SpawnErrors == {"FileNotFoundError", "PermissionError", "OSError"}

\* lines 125-141
StartEncoder ==
    /\ Running /\ pc = "popen"
    /\ proc' = "running"
    /\ stdinOpen' = TRUE
    /\ pc' = "write1"
    /\ UNCHANGED <<importOk, argsOk, isDir, files, outcome, diag, scanLog, global_min, global_max,
                   encLog, w, h, cur, rgba, sink, wbuf, piped, readerGone, returncode, codecVars>>

\* line 141 raises: no ffmpeg on PATH, or it may not be run
StartEncoderRaises ==
    /\ Running /\ pc = "popen"
    /\ \E k \in SpawnErrors : End("raised", Diag(k, 0))
    /\ UNCHANGED <<importOk, argsOk, isDir, files, scanLog, global_min, global_max, encLog,
                   w, h, cur, rgba, proc, stdinOpen, sink, wbuf, piped, readerGone, returncode,
                   codecVars>>

\* proc.stdin is the BufferedWriter Popen makes with its default bufsize:
\* io.open sizes the buffer by st_blksize of the pipe
BufferSize == 4096

\* faulty variant of SinkWrite: the new buffer lands ahead of what was written
SinkWritePrepends(s, buf) == buf \o s

\* bytes buf follow bytes s
SinkWrite(s, buf) == s \o buf

\* write(buf) only copies buf into the buffer when it fits beside what is held
FitsBuffer(held, buf) == Len(buf) <= BufferSize - Len(held)

\* otherwise what is held is handed to the pipe, and buf after it when buf
\* is larger than the buffer
ToPipe(held, buf) == IF Len(buf) > BufferSize THEN SinkWrite(held, buf) ELSE held

\* the pipe takes data by pages of this size
PipePage == 4096

\* counts of n bytes a write(2) can have taken when the encoder closes its
\* end: any count below n can occur, these are the ones drawn (whole pages,
\* one quad, the last count that leaves more than the buffer holds, the
\* first that does not, all but one quad)
PartialCounts(n) ==
    {k \in 0..(n - 1) : k % PipePage = 0}
      \cup {k \in {4, n - BufferSize - 1, n - BufferSize, n - 4} : k >= 0 /\ k < n}

\* counts of the bytes ToPipe(held, buf) the pipe takes.  What is held goes
\* in one write(2) of at most BufferSize bytes, whole or not at all; buf
\* goes in write(2) calls that stop at any count when the encoder leaves.
\* Nothing is taken once the encoder's end is closed.
Takes(held, buf) ==
    IF readerGone THEN {0}
    ELSE {Len(ToPipe(held, buf))}
           \cup (IF held # <<>> THEN {0} ELSE {})
           \cup (IF Len(buf) > BufferSize
                 THEN {Len(held) + k : k \in PartialCounts(Len(buf))}
                 ELSE {})

\* with t bytes taken write() raises BrokenPipeError: the flush of what was
\* held failed, or more than BufferSize bytes of buf are still to send (the
\* loop calls write(2) again)
WriteFails(held, buf, t) ==
    t < Len(held) \/ Len(ToPipe(held, buf)) - t > BufferSize

\* what the buffer holds after the write: what it held when the flush
\* failed, nothing when a write(2) of buf failed, else buf or the tail of
\* buf that write(2) did not take
ToBuffer(held, buf, t) ==
    IF t < Len(held) THEN held
    ELSE IF WriteFails(held, buf, t) THEN <<>>
    ELSE IF Len(buf) <= BufferSize THEN buf
    ELSE SubSeq(buf, t - Len(held) + 1, Len(buf))

\* t bytes of what write() hands to the pipe get through
PipeTakes(held, buf, t) ==
    /\ piped' = SinkWrite(piped, SubSeq(ToPipe(held, buf), 1, t))
    /\ wbuf' = ToBuffer(held, buf, t)
    /\ readerGone' = (readerGone \/ t < Len(ToPipe(held, buf)))

\* proc.stdin.write(buf) returns
StdinWrite(buf) ==
    /\ sink' = SinkWrite(sink, buf)
    /\ IF FitsBuffer(wbuf, buf)
       THEN /\ wbuf' = SinkWrite(wbuf, buf)
            /\ UNCHANGED <<piped, readerGone>>
       ELSE \E t \in Takes(wbuf, buf) :
               /\ ~WriteFails(wbuf, buf, t)
               /\ PipeTakes(wbuf, buf, t)

\* line 144
WriteFirst ==
    /\ Running /\ pc = "write1"
    /\ StdinWrite(rgba.bytes)
    /\ cur' = 1
    /\ pc' = "next"
    /\ UNCHANGED <<importOk, argsOk, isDir, files, outcome, diag, scanLog, global_min,
                   global_max, encLog, w, h, rgba, proc, stdinOpen, returncode, codecVars>>

\* line 144 or 162 raises BrokenPipeError: the write had to go to the pipe
\* (it did not fit the buffer) and the encoder has closed its end
WriteRaises ==
    /\ Running /\ pc \in {"write1", "write"}
    /\ ~FitsBuffer(wbuf, rgba.bytes)
    /\ \E t \in Takes(wbuf, rgba.bytes) :
          /\ WriteFails(wbuf, rgba.bytes, t)
          /\ PipeTakes(wbuf, rgba.bytes, t)
    /\ End("raised", Diag("BrokenPipe", IF pc = "write1" THEN 1 ELSE cur))
    /\ UNCHANGED <<importOk, argsOk, isDir, files, scanLog, global_min, global_max, encLog,
                   w, h, cur, rgba, proc, stdinOpen, sink, returncode, codecVars>>

\* the for loop of line 147 has gone through exr_list[1:]
StreamFinished == cur = Len(files)

\* lines 147-153 (range as in EncodeFirst)
NextFrame ==
    /\ Running /\ pc = "next" /\ ~StreamFinished
    /\ cur' = cur + 1
    /\ encLog' = Append(encLog, EncCall(cur + 1))
    /\ IF RangeUsable(global_min, global_max)
       THEN /\ rgba' = exr_to_rgba8_bytes_with_global_scale(files[cur + 1], global_min, global_max)
            /\ pc' = "check"
            /\ UNCHANGED <<outcome, diag>>
       ELSE /\ End("raised", Diag("ValueError", cur + 1))
            /\ UNCHANGED rgba
    /\ UNCHANGED <<importOk, argsOk, isDir, files, scanLog, global_min, global_max,
                   w, h, proc, stdinOpen, sink, wbuf, piped, readerGone, returncode, codecVars>>

\* lines 39-47 raise in the call of line 148
NextFrameRaises ==
    /\ Running /\ pc = "next" /\ ~StreamFinished
    /\ cur' = cur + 1
    /\ encLog' = Append(encLog, EncCall(cur + 1))
    /\ End("raised", Diag("DecodeError", cur + 1))
    /\ UNCHANGED <<importOk, argsOk, isDir, files, scanLog, global_min, global_max,
                   w, h, rgba, proc, stdinOpen, sink, wbuf, piped, readerGone, returncode, codecVars>>

\* line 155
GeometryDiffers(w2, h2) == w2 # w \/ h2 # h

\* proc.stdin.close() returns: what the buffer held has gone to the pipe
StdinClose ==
    /\ ~readerGone
    /\ piped' = SinkWrite(piped, wbuf)
    /\ wbuf' = <<>>
    /\ stdinOpen' = FALSE
    /\ UNCHANGED readerGone

\* proc.stdin.close() raises BrokenPipeError: the buffer held bytes and the
\* encoder has closed its end; the file descriptor is closed all the same
StdinCloseRaises ==
    /\ wbuf # <<>>
    /\ readerGone' = TRUE
    /\ stdinOpen' = FALSE
    /\ UNCHANGED <<piped, wbuf>>
    /\ End("raised", Diag("BrokenPipe", cur))

\* exit statuses of the encoder as Popen gives them: -N when signal N ended it
ExitStatuses == {-n : n \in Signals} \cup (0..MaxExitStatus)

\* proc.terminate(): SIGTERM is sent, unless the poll that goes before it
\* finds the encoder ended and sets proc.returncode
Terminate ==
    \/ proc' = "terminated" /\ UNCHANGED returncode
    \/ \E rc \in ExitStatuses : proc' = "exited" /\ returncode' = <<rc>>

\* lines 155-160
CheckGeometry ==
    /\ Running /\ pc = "check"
    /\ IF GeometryDiffers(rgba.w, rgba.h)
       THEN /\ StdinClose
            /\ Terminate
            /\ End("exit1", [kind |-> "Geometry", file |-> cur,
                             exp |-> <<w, h>>, got |-> <<rgba.w, rgba.h>>])
       ELSE /\ pc' = "write"
            /\ UNCHANGED <<outcome, diag, proc, stdinOpen, wbuf, piped, readerGone, returncode>>
    /\ UNCHANGED <<importOk, argsOk, isDir, files, scanLog, global_min, global_max, encLog,
                   w, h, cur, rgba, sink, codecVars>>

\* lines 155-158: the close of line 158 raises, lines 159-160 are not reached
GeometryCloseRaises ==
    /\ Running /\ pc = "check"
    /\ GeometryDiffers(rgba.w, rgba.h)
    /\ StdinCloseRaises
    /\ UNCHANGED <<importOk, argsOk, isDir, files, scanLog, global_min, global_max, encLog,
                   w, h, cur, rgba, proc, sink, returncode, codecVars>>

\* line 162
WriteNext ==
    /\ Running /\ pc = "write"
    /\ StdinWrite(rgba.bytes)
    /\ pc' = "next"
    /\ UNCHANGED <<importOk, argsOk, isDir, files, outcome, diag, scanLog, global_min, global_max,
                   encLog, w, h, cur, rgba, proc, stdinOpen, returncode, codecVars>>

\* line 164
CloseSink ==
    /\ Running /\ pc = "next" /\ StreamFinished
    /\ StdinClose
    /\ pc' = "wait"
    /\ UNCHANGED <<importOk, argsOk, isDir, files, outcome, diag, scanLog, global_min, global_max,
                   encLog, w, h, cur, rgba, proc, sink, returncode, codecVars>>

\* line 164 raises, line 165 is not reached
CloseSinkRaises ==
    /\ Running /\ pc = "next" /\ StreamFinished
    /\ StdinCloseRaises
    /\ UNCHANGED <<importOk, argsOk, isDir, files, scanLog, global_min, global_max, encLog,
                   w, h, cur, rgba, proc, sink, returncode, codecVars>>

\* line 165: the value of proc.wait() is dropped
WaitEncoder ==
    /\ Running /\ pc = "wait"
    /\ \E rc \in ExitStatuses : returncode' = <<rc>>
    /\ proc' = "exited"
    /\ pc' = "done"
    /\ UNCHANGED <<importOk, argsOk, isDir, files, outcome, diag, scanLog, global_min, global_max,
                   encLog, w, h, cur, rgba, stdinOpen, sink, wbuf, piped, readerGone, codecVars>>

\* line 167
PrintDone ==
    /\ Running /\ pc = "done"
    /\ End("done", Diag("Done", 0))
    /\ UNCHANGED <<importOk, argsOk, isDir, files, scanLog, global_min, global_max, encLog,
                   w, h, cur, rgba, proc, stdinOpen, sink, wbuf, piped, readerGone, returncode,
                   codecVars>>

Next ==
    \/ ImportLibraries
    \/ CheckArgs
    \/ CheckDir
    \/ ListFiles
    \/ ScanFile
    \/ ScanFileRaises
    \/ CheckRange
    \/ EncodeFirst
    \/ EncodeFirstRaises
    \/ StartEncoder
    \/ StartEncoderRaises
    \/ WriteFirst
    \/ WriteRaises
    \/ NextFrame
    \/ NextFrameRaises
    \/ CheckGeometry
    \/ GeometryCloseRaises
    \/ WriteNext
    \/ CloseSink
    \/ CloseSinkRaises
    \/ WaitEncoder
    \/ PrintDone

Spec == Init /\ [][Next]_vars

----------------------------------------------------------------------------
(* The packing of lines 62-67 on its own: a float32 pattern in, 4 bytes out *)

ExpValues == {0, 1, 127, 128, 254, 255}

MantValues == {0, 1, Pow2(MantBits - 1) - 1, Pow2(MantBits - 1),
               Pow2(MantBits - 1) + 1, Pow2(MantBits) - 1}

\* a NaN whose mantissa bit 22 is clear
Signalling(b) == b.e = 255 /\ b.m # 0 /\ b.m < Pow2(MantBits - 1)

\* patterns fval of line 62 can hold: it is an element of the array line 51
\* computed, and float32 arithmetic gives no signalling NaN
Patterns == {b \in [s : {0, 1}, e : ExpValues, m : MantValues] : ~Signalling(b)}

CodecInit ==
    /\ importOk = FALSE /\ argsOk = FALSE /\ isDir = FALSE /\ files = <<>>
    /\ pc = "off"
    /\ outcome = "running"
    /\ diag = NoDiag
    /\ scanLog = <<>>
    /\ global_min = PInf
    /\ global_max = NInf
    /\ encLog = <<>>
    /\ w = 0 /\ h = 0
    /\ cur = 0
    /\ rgba = NoBuf
    /\ proc = "none"
    /\ stdinOpen = FALSE
    /\ sink = <<>>
    /\ wbuf = <<>>
    /\ piped = <<>>
    /\ readerGone = FALSE
    /\ returncode = <<>>
    /\ cpc = "in"
    /\ cv \in Patterns
    /\ cbytes = <<>>

\* lines 62-67 for one fval
CodecPack ==
    /\ cpc = "in"
    /\ cbytes' = StructPack(cv)
    /\ cpc' = "packed"
    /\ UNCHANGED <<cv, pipeVars>>

CodecNext == CodecPack

SpecCodec == CodecInit /\ [][CodecNext]_vars

----------------------------------------------------------------------------
(* Vocabulary of the properties *)

NFiles == Len(files)

Ended == outcome # "running"

\* the scan loop has gone through the whole list
ScanEnded == files # <<>> /\ pc \notin {"import", "args", "isdir", "glob", "off"} /\
             ~(pc = "scan" /\ Len(scanLog) < NFiles) /\
             ~(diag.kind = "DecodeError" /\ encLog = <<>>)

\* the scan raised, or ended on the sentinels
ScanFailed == Ended /\ (diag.kind = "RangeError" \/ (diag.kind = "DecodeError" /\ encLog = <<>>))

EveryFileOnce == scanLog = [i \in 1..NFiles |-> i]

\* a <= b in IEEE order
Le(a, b) == Lt(a, b) \/ (a.k # "nan" /\ a = b)

AllSamples == UNION {{files[i].data[j] : j \in 1..Len(files[i].data)} : i \in 1..NFiles}

NoNaNSample == \A x \in AllSamples : x.k # "nan"

IsMinimum(x) == x \in AllSamples /\ \A y \in AllSamples : Le(x, y)
IsMaximum(x) == x \in AllSamples /\ \A y \in AllSamples : Le(y, x)

\* the buffer of frame i under the range of the run
PackedFrame(i) == exr_to_rgba8_bytes_with_global_scale(files[i], global_min, global_max).bytes

RECURSIVE Concat(_, _)
Concat(bufs, j) == IF j = 0 THEN <<>> ELSE Concat(bufs, j - 1) \o bufs[j]

\* the buffers of frames 1..j, in sorted-file order
FramesUpTo(j) == Concat([i \in 1..j |-> PackedFrame(i)], j)

\* bits 0-7, 8-15, 16-23, 24-31 of a pattern
BitsLE(v) == << v.m % 256, (v.m \div 256) % 256,
                (v.e % 2) * 128 + (v.m \div 65536), v.s * 128 + (v.e \div 2) >>

\* the pattern whose bits are the 4 bytes, least significant first
FromBytes(b) == [s |-> b[4] \div 128,
                 e |-> 2 * (b[4] % 128) + (b[3] \div 128),
                 m |-> b[1] + 256 * b[2] + 65536 * (b[3] % 128)]

\* the bit pattern of a sample as it is on disk
RawBits(x) == IF x.k = "nan" THEN QuietNaNBits ELSE F32Round(x.n, 1)

RECURSIVE RawUpTo(_)
RawUpTo(j) ==
    IF j = 0 THEN <<>>
    ELSE RawUpTo(j - 1) \o
         [i \in 1..(4 * Len(files[j].data)) |->
             BitsLE(RawBits(files[j].data[((i - 1) \div 4) + 1]))[((i - 1) % 4) + 1]]

FirstGeometry == <<files[1].w, files[1].h>>
GeometryOf(i) == <<files[i].w, files[i].h>>
Mismatching == {i \in 2..NFiles : GeometryOf(i) # FirstGeometry}
FirstMismatch == CHOOSE k \in Mismatching : \A i \in Mismatching : k <= i

FrameBytes == 4 * w * h

IsPrefix(p, q) == Len(p) <= Len(q) /\ p = SubSeq(q, 1, Len(p))

\* the run ended before the geometry check of line 155 could fail: a read
\* raised, the scan found no range, the encoder did not start, or a write
\* raised (stdin is still open then)
EndedEarlier ==
    \/ diag.kind \in {"DecodeError", "RangeError"} \cup SpawnErrors
    \/ diag.kind = "BrokenPipe" /\ stdinOpen

----------------------------------------------------------------------------
(* C1. Geometry enforcement: when frame k is the first frame whose (W,H)   *)
(* differs from frame 1's, no byte of frame k or of a later frame is ever  *)
(* written, and a run that no failed read, no failed start of the encoder, *)
(* no failed write and not the scan has ended before ends naming frame k   *)
(* with the expected and the actual geometry, the sink closed, the encoder *)
(* terminated (or found ended) and frames 1..k-1 written.                  *)
C1_GeometryEnforced ==
    (files # <<>> /\ Mismatching # {}) =>
        /\ Len(sink) <= 4 * (FirstMismatch - 1) * files[1].w * files[1].h
        /\ Len(piped) <= 4 * (FirstMismatch - 1) * files[1].w * files[1].h
        /\ (Ended /\ importOk /\ argsOk /\ isDir /\ ~EndedEarlier) =>
              /\ outcome = "exit1"
              /\ diag = [kind |-> "Geometry", file |-> FirstMismatch,
                         exp |-> FirstGeometry, got |-> GeometryOf(FirstMismatch)]
              /\ ~stdinOpen
              /\ proc \in {"terminated", "exited"}
              /\ sink = FramesUpTo(FirstMismatch - 1)
              /\ piped = sink

\* C1 with the runs set aside that line 54 ends, or the close of line 158
C1_GeometryEnforcedNoRaise ==
    (files # <<>> /\ Mismatching # {}) =>
        /\ Len(sink) <= 4 * (FirstMismatch - 1) * files[1].w * files[1].h
        /\ Len(piped) <= 4 * (FirstMismatch - 1) * files[1].w * files[1].h
        /\ (Ended /\ importOk /\ argsOk /\ isDir /\ ~EndedEarlier /\
            diag.kind \notin {"ValueError", "BrokenPipe"}) =>
              /\ outcome = "exit1"
              /\ diag = [kind |-> "Geometry", file |-> FirstMismatch,
                         exp |-> FirstGeometry, got |-> GeometryOf(FirstMismatch)]
              /\ ~stdinOpen
              /\ proc \in {"terminated", "exited"}
              /\ sink = FramesUpTo(FirstMismatch - 1)
              /\ piped = sink

----------------------------------------------------------------------------
(* C2. Frame ordering: in every state the bytes written to the sink (the    *)
(* write() calls that returned) are the packed buffers of frames 1..j,     *)
(* whole, W*H*4 bytes each and in sorted-file order, for some j <= N; when *)
(* the run ends in Done, j = N.  And what went through the pipe to the     *)
(* encoder is a prefix of those bytes (or, when a write raised with a part *)
(* of its frame sent, of frames 1..j+1), followed until a write or close   *)
(* raises by what the buffer of the sink holds, and is all of them when    *)
(* the run ends in Done.                                                   *)
C2_FrameOrder ==
    /\ \/ sink = <<>>
       \/ \E j \in 1..NFiles : Len(sink) = j * FrameBytes /\ sink = FramesUpTo(j)
    /\ outcome = "done" => Len(sink) = NFiles * FrameBytes
    /\ \/ Len(piped) <= Len(sink) /\ IsPrefix(piped, sink)
       \/ /\ Len(piped) > Len(sink)
          /\ \E j \in 1..NFiles :
                Len(sink) = (j - 1) * FrameBytes /\ IsPrefix(piped, FramesUpTo(j))
    /\ diag.kind # "BrokenPipe" => SinkWrite(piped, wbuf) = sink
    /\ outcome = "done" => piped = sink

\* the bytes that went through the pipe are whole frames too: does not hold,
\* the encoder can close its end while a frame is being sent
PipedWholeFrames ==
    \/ piped = <<>>
    \/ \E j \in 1..NFiles : Len(piped) = j * FrameBytes /\ piped = FramesUpTo(j)

C2_Witness ==
    /\ outcome = "done" /\ NFiles >= 2 /\ PackedFrame(1) # PackedFrame(2)
    /\ piped = sink

----------------------------------------------------------------------------
(* C3. Scan barrier: a frame is packed, the encoder started or a byte      *)
(* written only after the scan has read every file; when the scan fails    *)
(* the encoder is never started and nothing is written.                    *)
C3_ScanBarrier ==
    /\ (encLog # <<>> \/ proc # "none" \/ stdinOpen \/ sink # <<>> \/ wbuf # <<>> \/
        piped # <<>> \/ diag.kind \in SpawnErrors) =>
           (EveryFileOnce /\ ScanEnded)
    /\ ScanFailed => (proc = "none" /\ ~stdinOpen /\ sink = <<>> /\ wbuf = <<>> /\
                      piped = <<>> /\ encLog = <<>>)

C3_Witness == proc = "running" /\ NFiles >= 2 /\ sink # <<>>

----------------------------------------------------------------------------
(* C4. Encoder failure reporting: when the encoder that was waited for     *)
(* after the last frame ended with a status that is not zero, the run ends *)
(* in an EncoderError and never in Done.                                   *)
C4_EncoderFailureReported ==
    (Ended /\ diag.kind # "Geometry" /\ returncode # <<>> /\ returncode[1] # 0) =>
        (outcome # "done" /\ diag.kind = "EncoderError")

----------------------------------------------------------------------------
(* C5. Release on every fatal error: a run that ends in an error after the *)
(* encoder was started has closed the sink and terminated the encoder.     *)
C5_ReleasedOnError ==
    (outcome \in {"exit1", "raised"} /\ proc # "none") =>
        (~stdinOpen /\ proc \in {"terminated", "exited"})

----------------------------------------------------------------------------
(* C6. Raw mode: a run ends in Done without a range scan and with every    *)
(* sample's own bit pattern, unscaled, in the sink.                        *)
C6_RawMode ==
    outcome = "done" => (scanLog = <<>> /\ sink = RawUpTo(NFiles))

\* the two frames of the scenario, and what line 118 and 148 return for them
\* under the range (0, 4)
ScenarioFrame1 == [w |-> 2, h |-> 2, data |-> <<Fin(0), Fin(1), Fin(2), Fin(3)>>]
ScenarioFrame2 == [w |-> 2, h |-> 2, data |-> <<Fin(1), Fin(2), Fin(3), Fin(4)>>]

ScenarioNormalised ==
    /\ UpdateMin(get_exr_min_max(ScenarioFrame2)[1],
                 UpdateMin(get_exr_min_max(ScenarioFrame1)[1], PInf)) = Fin(0)
    /\ UpdateMax(get_exr_min_max(ScenarioFrame2)[2],
                 UpdateMax(get_exr_min_max(ScenarioFrame1)[2], NInf)) = Fin(4)
    /\ exr_to_rgba8_bytes_with_global_scale(ScenarioFrame1, Fin(0), Fin(4)).bytes =
         <<0, 0, 0, 0,  0, 0, 128, 62,  0, 0, 0, 63,  0, 0, 64, 63>>
    /\ exr_to_rgba8_bytes_with_global_scale(ScenarioFrame2, Fin(0), Fin(4)).bytes =
         <<0, 0, 128, 62,  0, 0, 0, 63,  0, 0, 64, 63,  0, 0, 128, 63>>

\* what the code does instead: every run that writes has scanned every file,
\* and the two frames of the scenario are written as [[0,0.25],[0.5,0.75]]
\* and [[0.25,0.5],[0.75,1.0]]
C6_AlwaysScanned ==
    /\ ScenarioNormalised
    /\ sink # <<>> => EveryFileOnce

----------------------------------------------------------------------------
(* C7. Degenerate range: with global_max <= global_min every frame that is *)
(* read packs to zero bytes and the run does not fail for that reason.     *)
C7_DegenerateZero ==
    (encLog # <<>> /\ ~RangeUsable(global_min, global_max)) =>
        \/ diag.kind = "DecodeError"
        \/ /\ diag.kind # "ValueError"
           /\ rgba.bytes = [i \in 1..(4 * Len(files[Len(encLog)].data)) |-> 0]

----------------------------------------------------------------------------
(* C8. Sample packing round trip: packing a 32-bit pattern v (any pattern  *)
(* line 62 can hold) gives exactly 4 bytes, bits 0-7, 8-15, 16-23, 24-31   *)
(* of v, least significant first, and the 4 bytes give v back.             *)
C8_PackRoundTrip ==
    cpc = "packed" =>
        /\ Len(cbytes) = 4
        /\ cbytes = BitsLE(cv)
        /\ FromBytes(cbytes) = cv

C8_Witness ==
    /\ cpc = "packed" /\ cv.e = 255 /\ cv.m # 0 /\ cv.s = 1
    /\ cbytes = <<cv.m % 256, (cv.m \div 256) % 256, 128 + (cv.m \div 65536), 255>>

----------------------------------------------------------------------------
(* C9. Empty input: with no matching file the run ends in exit status 1    *)
(* with the "no files" diagnostic, and never scans, encodes, starts the    *)
(* encoder or writes.                                                      *)
C9_EmptyInput ==
    (importOk /\ argsOk /\ isDir /\ files = <<>>) =>
        /\ pc \in {"import", "args", "isdir", "glob", "end"}
        /\ scanLog = <<>> /\ encLog = <<>> /\ proc = "none" /\ ~stdinOpen
        /\ sink = <<>> /\ wbuf = <<>> /\ piped = <<>>
        /\ Ended => (outcome = "exit1" /\ diag.kind = "NoFiles")

C9_Witness == importOk /\ argsOk /\ isDir /\ files = <<>> /\ Ended

----------------------------------------------------------------------------
(* C10 as stated. Global range: once the scan has ended, global_min is the *)
(* minimum and global_max the maximum over all samples of all frames,      *)
(* global_min <= global_max, every file was read once, and every encode    *)
(* call got that pair.                                                     *)
C10_GlobalRange ==
    ScanEnded =>
        /\ IsMinimum(global_min)
        /\ IsMaximum(global_max)
        /\ Le(global_min, global_max)
        /\ EveryFileOnce
        /\ \A c \in 1..Len(encLog) :
              encLog[c].gmin = global_min /\ encLog[c].gmax = global_max

(* C10 as amended. The same, for the sequences that hold no NaN sample.    *)
C10_GlobalRangeNoNaN ==
    (ScanEnded /\ NoNaNSample) =>
        /\ IsMinimum(global_min)
        /\ IsMaximum(global_max)
        /\ Le(global_min, global_max)
        /\ EveryFileOnce
        /\ \A c \in 1..Len(encLog) :
              encLog[c].gmin = global_min /\ encLog[c].gmax = global_max

C10_Witness ==
    /\ ScanEnded /\ NoNaNSample /\ NFiles >= 2 /\ Len(encLog) >= 2
    /\ Lt(global_min, global_max)
    /\ ArrMin(files[1].data) # global_min
    /\ ArrMax(files[NFiles].data) # global_max

====
